---- MODULE Spec2Model ----
(***************************************************************************)
(* A model of the two notebooks of the repository.                         *)
(*                                                                         *)
(*  - plot_ensemble_oob.ipynb: the OOB sweep.  Three warm-started random   *)
(*    forests are refit for every n_estimators in                          *)
(*    min_estimators..max_estimators, the OOB error of each fit is         *)
(*    appended to error_rate, and the curves are plotted after the sweep.  *)
(*  - "SoGe 2.ipynb": the classifier comparison.  A CSV file is read, the  *)
(*    label column is binarised, the minority class is upsampled, and a    *)
(*    logistic regression, a support-vector classifier and a random forest *)
(*    are fit and evaluated.                                               *)
(*                                                                         *)
(* One statement of a notebook is one action.  The numerical results of    *)
(* the statistical library (trees, scores, predictions) are kept as        *)
(* uninterpreted records that say what they were computed from; the       *)
(* shapes, the bookkeeping and the control flow are modelled exactly.      *)
(***************************************************************************)
EXTENDS Integers, Sequences, FiniteSets, TLC

VARIABLES
    nb,             \* which notebook this kernel session runs: "oob" or "soge"
    pc,             \* the statement about to execute
    failed,         \* the statement that raised, or "none"
    out,            \* what has been rendered: printed lines, displayed values, plot lines
    computed,       \* number of metric values computed so far (history)
    \* ---- plot_ensemble_oob.ipynb
    data,           \* X, y of make_classification
    ensemble_clfs,  \* list of (label, classifier object)
    error_rate,     \* OrderedDict label -> list of (n_estimators, error), as a list of entries
    ci,             \* position of the outer loop in ensemble_clfs (0 before the loop)
    i,              \* the inner loop variable
    oob_error,      \* the variable oob_error
    fitting,        \* positions of the classifiers whose fit call has not returned
    fitLog,         \* history: (position, n_estimators) of the last fit call
    pi,             \* position of the plot loop in error_rate.items()
    \* ---- SoGe 2.ipynb
    file,           \* the rows of balance-scale.data
    df, df_majority, df_minority, df_minority_upsampled, df_upsampled,
    X, y,
    clfs,           \* clf_1, clf_3, clf_4: the classifier objects by variable name
    preds,          \* pred_y_1, pred_y_3, pred_y_4, prob_y_3, prob_y_4 by variable name
    calls,          \* history: the library calls that pair a label vector with a matrix
    df_before,      \* history: df as it was when the upsampling statements began
    rerun           \* TRUE once the binarisation cell has been executed a second time

oobVars  == <<data, ensemble_clfs, error_rate, ci, i, oob_error, fitting, fitLog, pi>>
sogeVars == <<file, df, df_majority, df_minority, df_minority_upsampled, df_upsampled,
              X, y, clfs, preds, calls, df_before, rerun>>
vars     == <<nb, pc, failed, out, computed, oobVars, sogeVars>>

-----------------------------------------------------------------------------
(* Program constants *)

RANDOM_STATE   == 123
min_estimators == 15
max_estimators == 175
N_SAMPLES_OOB  == 500
N_FEATURES_OOB == 25
n_samples      == 576
random_state   == 123

(* Bound of the model: the number of rows of the input file *)
MaxRows == 3

\* The value of a Python name that is not bound.
Undef == [t |-> "undef"]

-----------------------------------------------------------------------------
(* plot_ensemble_oob.ipynb *)

Labels == << "RandomForestClassifier, max_features='sqrt'",
             "RandomForestClassifier, max_features='log2'",
             "RandomForestClassifier, max_features=None" >>

MaxFeatures == << "sqrt", "log2", "None" >>

\* RandomForestClassifier(warm_start=True, oob_score=True, max_features=..., random_state=...);
\* n_estimators is left to the library default until set_params sets it
NewForest(mf, ws) ==
    [ warm_start   |-> ws,
      oob_score    |-> TRUE,
      max_features |-> mf,
      random_state |-> RANDOM_STATE,
      n_estimators |-> Undef,
      estimators_  |-> << >>,
      oob_score_   |-> Undef,
      fits         |-> 0 ]

\* The forests built without warm_start.
ColdStart == FALSE

\* warm_start=True of the three constructors
WarmStart == TRUE

\* forest.fit with n_estimators below the number of trees held raises ValueError
ForestFitRaises(clf) ==
    clf.warm_start /\ clf.n_estimators < Len(clf.estimators_)

\* forest.fit(X, y): a warm-started forest keeps its trees and adds
\* n_estimators - len(estimators_) new ones; otherwise all trees are rebuilt.
\* A tree is named by the fit that built it and its position.
ForestFit(clf) ==
    LET kept   == IF clf.warm_start THEN clf.estimators_ ELSE << >>
        n_more == clf.n_estimators - Len(kept)
        new    == [k \in 1..n_more |-> [fit |-> clf.fits + 1, k |-> Len(kept) + k]]
        trees  == kept \o new
    IN  [clf EXCEPT !.estimators_ = trees,
                    !.fits        = @ + 1,
                    !.oob_score_  = IF clf.oob_score
                                    THEN [t |-> "oob_score", mf |-> clf.max_features,
                                          trees |-> Len(trees)]
                                    ELSE @]

\* 1 - clf.oob_score_
OobError(clf) == [t |-> "oob_error", of |-> clf.oob_score_]

\* An exception that is swallowed: the run goes on from the same statement.
RaiseAndContinue(at) ==
    /\ failed' = at
    /\ pc' = pc

\* An uncaught exception at statement `at`: the run ends there.
Raise(at) ==
    /\ failed' = at
    /\ pc' = "terminated"

\* print(__doc__): the kernel's module docstring is written to the cell's output
PrintDoc ==
    /\ nb = "oob" /\ pc = "print_doc"
    /\ out' = Append(out, [t |-> "print", what |-> "doc", of |-> "__doc__"])
    /\ pc' = "make_classification"
    /\ UNCHANGED <<nb, failed, computed, oobVars, sogeVars>>

\* X, y = make_classification(n_samples=500, n_features=25, ...)
MakeClassification ==
    /\ nb = "oob" /\ pc = "make_classification"
    /\ data' = [n_samples |-> N_SAMPLES_OOB, n_features |-> N_FEATURES_OOB]
    /\ pc' = "ensemble_clfs"
    /\ UNCHANGED <<nb, failed, out, computed, ensemble_clfs, error_rate, ci, i,
                   oob_error, fitting, fitLog, pi, sogeVars>>

EnsembleClfs ==
    /\ nb = "oob" /\ pc = "ensemble_clfs"
    /\ ensemble_clfs' = [k \in 1..Len(Labels) |->
                            [label |-> Labels[k], clf |-> NewForest(MaxFeatures[k], WarmStart)]]
    /\ pc' = "error_rate"
    /\ UNCHANGED <<nb, failed, out, computed, data, error_rate, ci, i,
                   oob_error, fitting, fitLog, pi, sogeVars>>

\* error_rate = OrderedDict((label, []) for label, _ in ensemble_clfs)
ErrorRateInit ==
    /\ nb = "oob" /\ pc = "error_rate"
    /\ error_rate' = [k \in 1..Len(ensemble_clfs) |->
                         [label |-> ensemble_clfs[k].label, pairs |-> << >>]]
    /\ pc' = "for_label"
    /\ UNCHANGED <<nb, failed, out, computed, data, ensemble_clfs, ci, i,
                   oob_error, fitting, fitLog, pi, sogeVars>>

\* The sweep starting one value late, and stopping one value early.
RangeStartLate     == min_estimators + 1
RangeStopExclusive == max_estimators

\* range(min_estimators, max_estimators + 1): the first value and the stop value
RangeStart == min_estimators
RangeStop  == max_estimators + 1

\* for label, clf in ensemble_clfs:
ForLabel ==
    /\ nb = "oob" /\ pc = "for_label"
    /\ IF ci < Len(ensemble_clfs)
       THEN ci' = ci + 1 /\ i' = RangeStart - 1 /\ pc' = "for_i"
       ELSE UNCHANGED <<ci, i>> /\ pc' = "plot_for"
    /\ UNCHANGED <<nb, failed, out, computed, data, ensemble_clfs, error_rate,
                   oob_error, fitting, fitLog, pi, sogeVars>>

\* for i in range(min_estimators, max_estimators + 1):
ForI ==
    /\ nb = "oob" /\ pc = "for_i"
    /\ IF i + 1 < RangeStop
       THEN i' = i + 1 /\ pc' = "set_params"
       ELSE UNCHANGED i /\ pc' = "for_label"
    /\ UNCHANGED <<nb, failed, out, computed, data, ensemble_clfs, error_rate, ci,
                   oob_error, fitting, fitLog, pi, sogeVars>>

\* clf.set_params(n_estimators=i)
SetParams ==
    /\ nb = "oob" /\ pc = "set_params"
    /\ ensemble_clfs' = [ensemble_clfs EXCEPT ![ci].clf.n_estimators = i]
    /\ pc' = "fit"
    /\ UNCHANGED <<nb, failed, out, computed, data, error_rate, ci, i,
                   oob_error, fitting, fitLog, pi, sogeVars>>

\* clf.fit(X, y) is entered
FitCall ==
    /\ nb = "oob" /\ pc = "fit"
    /\ fitting' = fitting \cup {ci}
    /\ fitLog' = <<ci, ensemble_clfs[ci].clf.n_estimators>>
    /\ pc' = "in_fit"
    /\ UNCHANGED <<nb, failed, out, computed, data, ensemble_clfs, error_rate, ci, i,
                   oob_error, pi, sogeVars>>

\* A fit that returns while its work is still in progress.
FitReturnAsync ==
    /\ nb = "oob" /\ pc = "in_fit"
    /\ ~ForestFitRaises(ensemble_clfs[ci].clf)
    /\ ensemble_clfs' = [ensemble_clfs EXCEPT ![ci].clf = ForestFit(@)]
    /\ fitting' = fitting
    /\ pc' = "record"
    /\ UNCHANGED <<nb, failed, out, computed, data, error_rate, ci, i,
                   oob_error, fitLog, pi, sogeVars>>

\* clf.fit(X, y) returns
FitReturn ==
    /\ nb = "oob" /\ pc = "in_fit"
    /\ ~ForestFitRaises(ensemble_clfs[ci].clf)
    /\ ensemble_clfs' = [ensemble_clfs EXCEPT ![ci].clf = ForestFit(@)]
    /\ fitting' = fitting \ {ci}
    /\ pc' = "record"
    /\ UNCHANGED <<nb, failed, out, computed, data, error_rate, ci, i,
                   oob_error, fitLog, pi, sogeVars>>

\* clf.fit(X, y) raises: the ValueError of a shrinking warm start, or whatever
\* else the library raises (MemoryError, KeyboardInterrupt, ...)
FitRaise ==
    /\ nb = "oob" /\ pc = "in_fit"
    /\ fitting' = fitting \ {ci}
    /\ Raise("fit")
    /\ UNCHANGED <<nb, out, computed, data, ensemble_clfs, error_rate, ci, i,
                   oob_error, fitLog, pi, sogeVars>>

\* oob_error = 1 - clf.oob_score_ ; error_rate[label].append((i, oob_error))
Record ==
    /\ nb = "oob" /\ pc = "record"
    /\ oob_error' = OobError(ensemble_clfs[ci].clf)
    /\ computed' = computed + 1
    /\ error_rate' = [k \in 1..Len(error_rate) |->
                         IF error_rate[k].label = ensemble_clfs[ci].label
                         THEN [error_rate[k] EXCEPT !.pairs = Append(@, <<i, oob_error'>>)]
                         ELSE error_rate[k]]
    /\ pc' = "for_i"
    /\ UNCHANGED <<nb, failed, out, data, ensemble_clfs, ci, i,
                   fitting, fitLog, pi, sogeVars>>

\* for label, clf_err in error_rate.items():
PlotFor ==
    /\ nb = "oob" /\ pc = "plot_for"
    /\ IF pi < Len(error_rate)
       THEN pi' = pi + 1 /\ pc' = "plot"
       ELSE UNCHANGED pi /\ pc' = "show"
    /\ UNCHANGED <<nb, failed, out, computed, data, ensemble_clfs, error_rate, ci, i,
                   oob_error, fitting, fitLog, sogeVars>>

\* xs, ys = zip(*clf_err) ; plt.plot(xs, ys, label=label)
Plot ==
    /\ nb = "oob" /\ pc = "plot"
    /\ IF Len(error_rate[pi].pairs) = 0
       THEN \* zip() of nothing yields nothing to unpack: ValueError
            Raise("plot") /\ UNCHANGED out
       ELSE /\ out' = Append(out, [t     |-> "line",
                                   label |-> error_rate[pi].label,
                                   xs    |-> [k \in 1..Len(error_rate[pi].pairs) |->
                                                 error_rate[pi].pairs[k][1]],
                                   ys    |-> [k \in 1..Len(error_rate[pi].pairs) |->
                                                 error_rate[pi].pairs[k][2]]])
            /\ pc' = "plot_for"
            /\ UNCHANGED failed
    /\ UNCHANGED <<nb, computed, data, ensemble_clfs, error_rate, ci, i,
                   oob_error, fitting, fitLog, pi, sogeVars>>

\* plt.xlim(...) ... plt.show()
Show ==
    /\ nb = "oob" /\ pc = "show"
    /\ out' = Append(out, [t |-> "show", xlim |-> <<min_estimators, max_estimators>>])
    /\ pc' = "done"
    /\ UNCHANGED <<nb, failed, computed, data, ensemble_clfs, error_rate, ci, i,
                   oob_error, fitting, fitLog, pi, sogeVars>>

NextOOB ==
    \/ PrintDoc \/ MakeClassification \/ EnsembleClfs \/ ErrorRateInit
    \/ ForLabel \/ ForI \/ SetParams \/ FitCall \/ FitReturn \/ FitRaise \/ Record
    \/ PlotFor \/ Plot \/ Show

-----------------------------------------------------------------------------
(* SoGe 2.ipynb: values *)

\* Python values of the label column: the strings of the file, the ints of the
\* binarisation.  1 == 'B' is False in Python, not an error.
PyStr(s) == [t |-> "str", v |-> s]
PyInt(n) == [t |-> "int", v |-> n]
PyEq(a, b) == a.t = b.t /\ a.v = b.v

Columns == << "balance", "var1", "var2", "var3", "var4" >>

Range(s) == {s[k] : k \in DOMAIN s}

\* The sub-sequence of s at the positions where keep holds, in order.
RECURSIVE SelectIdx(_, _, _)
SelectIdx(s, keep, k) ==
    IF k > Len(s) THEN << >>
    ELSE (IF keep[k] THEN <<s[k]>> ELSE << >>) \o SelectIdx(s, keep, k + 1)

\* Row p (from 1) of the input file: the features enumerate 1..5 as in
\* balance-scale.data, the label is the input.
FileRow(label, p) ==
    [ balance |-> PyStr(label),
      var1 |-> (((p - 1) \div 125) % 5) + 1,
      var2 |-> (((p - 1) \div 25) % 5) + 1,
      var3 |-> (((p - 1) \div 5) % 5) + 1,
      var4 |-> ((p - 1) % 5) + 1 ]

FileLabels == {"B", "L", "R"}

Files ==
    UNION { { [p \in 1..n |-> FileRow(ls[p], p)] : ls \in [1..n -> FileLabels] }
            : n \in 1..MaxRows }

\* pd.read_csv(path, names=[...]): a frame with a RangeIndex
ReadCsvFrame(f) ==
    [ columns |-> Columns,
      index   |-> [k \in 1..Len(f) |-> k - 1],
      rows    |-> f ]

\* A binarisation that keeps a label that is already 1.
BinariseIdempotent(col) ==
    [k \in 1..Len(col) |->
        IF PyEq(col[k], PyStr("B")) \/ PyEq(col[k], PyInt(1)) THEN PyInt(1) ELSE PyInt(0)]

\* [1 if b=='B' else 0 for b in df.balance]
Binarise(col) ==
    [k \in 1..Len(col) |-> IF PyEq(col[k], PyStr("B")) THEN PyInt(1) ELSE PyInt(0)]

\* frame.balance
BalanceOf(frame) == [k \in 1..Len(frame.rows) |-> frame.rows[k].balance]

\* df['balance'] = values
SetBalance(frame, values) ==
    [frame EXCEPT !.rows = [k \in 1..Len(frame.rows) |->
                                [frame.rows[k] EXCEPT !.balance = values[k]]]]

\* df[df.balance == v]
WhereBalance(frame, v) ==
    LET keep == [k \in 1..Len(frame.rows) |-> PyEq(frame.rows[k].balance, v)]
    IN  [frame EXCEPT !.index = SelectIdx(frame.index, keep, 1),
                      !.rows  = SelectIdx(frame.rows, keep, 1)]

\* ---- numpy.random.RandomState, the generator behind resample's random_state.
\* A 32-bit word is the pair <<high 16 bits, low 16 bits>>.

RECURSIVE Xor16(_, _, _)
Xor16(a, b, bits) ==
    IF bits = 0 THEN 0
    ELSE ((a + b) % 2) + 2 * Xor16(a \div 2, b \div 2, bits - 1)

RECURSIVE And16(_, _, _)
And16(a, b, bits) ==
    IF bits = 0 THEN 0
    ELSE ((a % 2) * (b % 2)) + 2 * And16(a \div 2, b \div 2, bits - 1)

WXor(u, v) == << Xor16(u[1], v[1], 16), Xor16(u[2], v[2], 16) >>
WAnd(u, v) == << And16(u[1], v[1], 16), And16(u[2], v[2], 16) >>

\* u >> s and u << s, 0 < s < 32
WShr(u, s) ==
    IF s >= 16 THEN << 0, u[1] \div (2 ^ (s - 16)) >>
    ELSE << u[1] \div (2 ^ s),
            ((u[1] % (2 ^ s)) * (2 ^ (16 - s))) + (u[2] \div (2 ^ s)) >>

WShl(u, s) ==
    IF s >= 16 THEN << (u[2] % (2 ^ (32 - s))) * (2 ^ (s - 16)), 0 >>
    ELSE << ((u[1] % (2 ^ (16 - s))) * (2 ^ s)) + (u[2] \div (2 ^ (16 - s))),
            (u[2] % (2 ^ (16 - s))) * (2 ^ s) >>

\* a * b modulo 2^16, and the full product of two 16-bit numbers as a word
MulMod16(a, b) == (((((a \div 256) * b) % 256) * 256) + ((a % 256) * b)) % 65536

Mul16(a, b) ==
    LET t   == (a \div 256) * b
        low == ((t % 256) * 256) + ((a % 256) * b)
    IN  << (t \div 256) + (low \div 65536), low % 65536 >>

\* u * v and u + k modulo 2^32
WMul(u, v) ==
    LET p == Mul16(u[2], v[2])
    IN  << (p[1] + MulMod16(u[1], v[2]) + MulMod16(u[2], v[1])) % 65536, p[2] >>

WAddInt(u, k) ==
    << (u[1] + ((u[2] + k) \div 65536)) % 65536, (u[2] + k) % 65536 >>

\* mt19937_seed: mt[0] = seed; mt[k] = 1812433253 * (mt[k-1] ^ (mt[k-1] >> 30)) + k.
\* The loop over k is run in stretches of 24 words.
RECURSIVE MTSeedRun(_, _, _)
MTSeedRun(mt, k, stop) ==
    IF Len(mt) >= stop THEN mt
    ELSE MTSeedRun(Append(mt, WAddInt(WMul(<<27655, 35173>>,
                                           WXor(mt[k], WShr(mt[k], 30))), k)),
                   k + 1, stop)

RECURSIVE MTSeed(_, _)
MTSeed(mt, k) ==
    IF Len(mt) >= 624 THEN mt
    ELSE LET stop == IF k + 24 < 624 THEN k + 24 ELSE 624
         IN  MTSeed(MTSeedRun(mt, k, stop), stop)

\* mt19937_gen: the 624 words are regenerated in place, word k (from 0) from
\* words k, k+1 and k+397; 0x9908b0df is xored in when the mixed word is odd.
\* The loop over k is run in stretches of 24 words.
RECURSIVE MTTwistRun(_, _, _)
MTTwistRun(mt, k, stop) ==
    IF k >= stop \/ Len(mt) < 624 THEN mt
    ELSE LET nxt == mt[((k + 1) % 624) + 1]
             yh  == ((mt[k + 1][1] \div 32768) * 32768) + (nxt[1] % 32768)
             mix == << yh, nxt[2] >>
             mag == IF mix[2] % 2 = 1 THEN <<39176, 45279>> ELSE <<0, 0>>
         IN  MTTwistRun([mt EXCEPT ![k + 1] =
                            WXor(WXor(mt[((k + 397) % 624) + 1], WShr(mix, 1)), mag)],
                        k + 1, stop)

RECURSIVE MTTwist(_, _)
MTTwist(mt, k) ==
    IF k >= 624 \/ Len(mt) < 624 THEN mt
    ELSE LET stop == IF k + 24 < 624 THEN k + 24 ELSE 624
         IN  MTTwist(MTTwistRun(mt, k, stop), stop)

\* the tempering of an output word
MTTemper(w) ==
    LET y1 == WXor(w, WShr(w, 11))
        y2 == WXor(y1, WAnd(WShl(y1, 7), <<40236, 22144>>))
        y3 == WXor(y2, WAnd(WShl(y2, 15), <<61382, 0>>))
    IN  WXor(y3, WShr(y3, 18))

\* the first 624 * blocks output words of the generator in state mt
RECURSIVE MTOutputs(_, _)
MTOutputs(mt, blocks) ==
    IF blocks = 0 THEN << >>
    ELSE LET t == MTTwist(mt, 0)
         IN  [k \in 1..624 |-> MTTemper(t[k])] \o MTOutputs(t, blocks - 1)

\* RandomState(seed): the output words a draw of `size` values may consume
RandomStateWords(seed, size) ==
    MTOutputs(MTSeed(<< << (seed \div 65536) % 65536, seed % 65536 >> >>, 1),
              ((4 * size) \div 624) + 1)

\* The stream of RandomState(123), the only generator the notebook builds.
ResampleStream == RandomStateWords(random_state, n_samples)

\* the smallest power of two above rng: the mask of the rejection sampling, plus one
RECURSIVE MaskPlus1(_, _)
MaskPlus1(rng, p) == IF p > rng THEN p ELSE MaskPlus1(rng, 2 * p)

\* word & mask
Masked(w, m) == IF m <= 65536 THEN w[2] % m ELSE ((w[1] % (m \div 65536)) * 65536) + w[2]

\* RandomState(seed).randint(0, n, size): each output word is masked and kept
\* when it is below n; with n = 1 no word is consumed
RandInt(seed, n, size) ==
    IF n = 1 THEN [k \in 1..size |-> 0]
    ELSE LET raw    == IF seed = random_state /\ size = n_samples
                       THEN ResampleStream ELSE RandomStateWords(seed, size)
             m      == MaskPlus1(n - 1, 1)
             masked == [k \in 1..Len(raw) |-> Masked(raw[k], m)]
         IN  SubSeq(SelectSeq(masked, LAMBDA v : v < n), 1, size)

\* sklearn.utils.resample(frame, replace=True, n_samples=size, random_state=seed)
Resample(frame, size, seed) ==
    LET at == RandInt(seed, Len(frame.rows), size)
    IN  [frame EXCEPT !.index = [k \in 1..size |-> frame.index[at[k] + 1]],
                      !.rows  = [k \in 1..size |-> frame.rows[at[k] + 1]]]

\* resample of a frame with no rows: randint(0, 0, ...) raises ValueError
ResampleRaises(frame) == Len(frame.rows) = 0

\* pd.concat([a, b])
Concat(a, b) ==
    [a EXCEPT !.index = a.index \o b.index, !.rows = a.rows \o b.rows]

\* A drop that keeps every column.
DropNothing(frame, name) ==
    [ of      |-> name,
      columns |-> frame.columns,
      index   |-> frame.index,
      rows    |-> frame.rows ]

\* frame.drop('balance', axis=1), remembering the frame variable it came from
DropBalance(frame, name) ==
    [ of      |-> name,
      columns |-> SelectSeq(frame.columns, LAMBDA c : c # "balance"),
      index   |-> frame.index,
      rows    |-> [k \in 1..Len(frame.rows) |->
                      [c \in {"var1", "var2", "var3", "var4"} |-> frame.rows[k][c]]] ]

\* frame.balance as the label vector, remembering the frame variable it came from
LabelVector(frame, name) ==
    [ of |-> name, index |-> frame.index, values |-> BalanceOf(frame) ]

\* df.balance.value_counts(): label value -> number of rows
ValueCounts(frame) ==
    LET col == BalanceOf(frame)
    IN  [v \in Range(col) |-> Cardinality({k \in 1..Len(col) : col[k] = v})]

Classes(labels) == Range(labels.values)

\* The statements of the notebook in cell order.  `c` is the classifier variable,
\* `src` the frame variable a statement reads.
Program == <<
    [label |-> "read_csv",       op |-> "read_csv"],
    [label |-> "head",           op |-> "head"],
    [label |-> "binarise",       op |-> "binarise"],
    [label |-> "majority",       op |-> "majority"],
    [label |-> "minority",       op |-> "minority"],
    [label |-> "resample",       op |-> "resample"],
    [label |-> "concat",         op |-> "concat"],
    [label |-> "value_counts",   op |-> "value_counts"],
    [label |-> "y_1",            op |-> "y",       src |-> "df_upsampled"],
    [label |-> "X_1",            op |-> "X",       src |-> "df_upsampled"],
    [label |-> "fit_1",          op |-> "new_fit", c |-> "clf_1", kind |-> "LogisticRegression"],
    [label |-> "predict_1",      op |-> "predict", c |-> "clf_1", to |-> "pred_y_1"],
    [label |-> "print_unique_1", op |-> "print_unique", v |-> "pred_y_1"],
    [label |-> "print_acc_1",    op |-> "print_accuracy", v |-> "pred_y_1"],
    [label |-> "y_3",            op |-> "y",       src |-> "df"],
    [label |-> "X_3",            op |-> "X",       src |-> "df"],
    [label |-> "new_3",          op |-> "new",     c |-> "clf_3", kind |-> "SVC"],
    [label |-> "fit_3",          op |-> "fit",     c |-> "clf_3"],
    [label |-> "predict_3",      op |-> "predict", c |-> "clf_3", to |-> "pred_y_3"],
    [label |-> "print_unique_3", op |-> "print_unique", v |-> "pred_y_3"],
    [label |-> "print_acc_3",    op |-> "print_accuracy", v |-> "pred_y_3"],
    [label |-> "proba_3",        op |-> "predict_proba", c |-> "clf_3", to |-> "prob_y_3"],
    [label |-> "column_3",       op |-> "column_1", v |-> "prob_y_3"],
    [label |-> "print_auc_3",    op |-> "print_auc", v |-> "prob_y_3"],
    [label |-> "y_4",            op |-> "y",       src |-> "df"],
    [label |-> "X_4",            op |-> "X",       src |-> "df"],
    [label |-> "new_4",          op |-> "new",     c |-> "clf_4", kind |-> "RandomForestClassifier"],
    [label |-> "fit_4",          op |-> "fit",     c |-> "clf_4"],
    [label |-> "predict_4",      op |-> "predict", c |-> "clf_4", to |-> "pred_y_4"],
    [label |-> "print_unique_4", op |-> "print_unique", v |-> "pred_y_4"],
    [label |-> "print_acc_4",    op |-> "print_accuracy", v |-> "pred_y_4"],
    [label |-> "proba_4",        op |-> "predict_proba", c |-> "clf_4", to |-> "prob_y_4"],
    [label |-> "column_4",       op |-> "column_1", v |-> "prob_y_4"],
    [label |-> "print_auc_4",    op |-> "print_auc", v |-> "prob_y_4"] >>

StmtLabels == {Program[k].label : k \in DOMAIN Program}
PosOf(l)   == CHOOSE k \in DOMAIN Program : Program[k].label = l
Stmt       == Program[PosOf(pc)]

\* The statement after pc.  A cell executed on its own ends at its last statement.
NextStmt ==
    IF PosOf(pc) = Len(Program) \/ (rerun /\ pc = "value_counts")
    THEN "done"
    ELSE Program[PosOf(pc) + 1].label

At(op) == nb = "soge" /\ pc \in StmtLabels /\ Stmt.op = op

\* The frame a Python name is bound to.
FrameNamed(name) == IF name = "df" THEN df ELSE df_upsampled

-----------------------------------------------------------------------------
(* SoGe 2.ipynb: the library calls on classifiers and vectors *)

\* LogisticRegression(), SVC(kernel='linear', ...), RandomForestClassifier()
NewClassifier(kind) ==
    [ kind |-> kind, fits |-> 0, trained_on |-> Undef, classes_ |-> {} ]

\* fit(X, y) raises ValueError when X and y disagree on the number of samples, and
\* the logistic regression and the SVC when y holds fewer than two classes
FitRaises(obj, Xm, yv) ==
    \/ Len(Xm.rows) # Len(yv.values)
    \/ obj.kind \in {"LogisticRegression", "SVC"} /\ Cardinality(Classes(yv)) < 2

\* fit(X, y): the object remembers what it was trained on
FitClassifier(obj, Xm, yv) ==
    [obj EXCEPT !.fits       = @ + 1,
                !.trained_on = [X_of |-> Xm.of, y_of |-> yv.of, columns |-> Xm.columns,
                                index |-> Xm.index, rows |-> Xm.rows, y |-> yv.values],
                !.classes_   = Classes(yv)]

\* clf.predict(X): one predicted label per row of X
PredictVector(c, Xm) ==
    [ t |-> "pred", by |-> c, of |-> Xm.of, index |-> Xm.index, ncols |-> 1 ]

\* clf.predict_proba(X): one row per row of X, one column per class seen in fit
ProbaMatrix(c, obj, Xm) ==
    [ t |-> "proba", by |-> c, of |-> Xm.of, index |-> Xm.index,
      ncols |-> Cardinality(obj.classes_) ]

VLen(v) == Len(v.index)

\* A library call: the classifier or vector variable it is about, and where the
\* label vector and the matrix (or vector) passed to it come from.
Call(fn, on, nX, ny, Xof, yof) ==
    [ fn |-> fn, on |-> on, n_matrix |-> nX, n_labels |-> ny,
      matrix_of |-> Xof, labels_of |-> yof ]

Bind(f, name, value) == (name :> value) @@ f

\* A print that shows nothing.
NotPrinted(o, item) == o

\* print(item): the item is appended to the cell's output
Printed(o, item) == Append(o, item)

-----------------------------------------------------------------------------
(* SoGe 2.ipynb: the statements *)

\* df = pd.read_csv(path, names=[...])
ReadCsv ==
    /\ At("read_csv")
    /\ df' = ReadCsvFrame(file)
    /\ pc' = NextStmt
    /\ UNCHANGED <<nb, failed, out, computed, oobVars, file, df_majority, df_minority,
                   df_minority_upsampled, df_upsampled, X, y, clfs, preds, calls,
                   df_before, rerun>>

\* the file is missing or malformed: read_csv raises
ReadCsvRaise ==
    /\ At("read_csv")
    /\ Raise("read_csv")
    /\ UNCHANGED <<nb, out, computed, oobVars, sogeVars>>

\* df.head()
DfHead ==
    /\ At("head")
    /\ out' = Append(out, [t |-> "display", what |-> "head",
                           rows |-> SubSeq(df.rows, 1, IF Len(df.rows) < 5
                                                       THEN Len(df.rows) ELSE 5)])
    /\ pc' = NextStmt
    /\ UNCHANGED <<nb, failed, computed, oobVars, sogeVars>>

\* df['balance'] = [1 if b=='B' else 0 for b in df.balance]
BinariseLabels ==
    /\ At("binarise")
    /\ df' = SetBalance(df, Binarise(BalanceOf(df)))
    /\ pc' = NextStmt
    /\ UNCHANGED <<nb, failed, out, computed, oobVars, file, df_majority, df_minority,
                   df_minority_upsampled, df_upsampled, X, y, clfs, preds, calls,
                   df_before, rerun>>

\* df_majority = df[df.balance==0]
Majority ==
    /\ At("majority")
    /\ df_majority' = WhereBalance(df, PyInt(0))
    /\ df_before' = df
    /\ pc' = NextStmt
    /\ UNCHANGED <<nb, failed, out, computed, oobVars, file, df, df_minority,
                   df_minority_upsampled, df_upsampled, X, y, clfs, preds, calls, rerun>>

\* df_minority = df[df.balance==1]
Minority ==
    /\ At("minority")
    /\ df_minority' = WhereBalance(df, PyInt(1))
    /\ pc' = NextStmt
    /\ UNCHANGED <<nb, failed, out, computed, oobVars, file, df, df_majority,
                   df_minority_upsampled, df_upsampled, X, y, clfs, preds, calls,
                   df_before, rerun>>

\* df_minority_upsampled = resample(df_minority, replace=True, n_samples=576, random_state=123)
ResampleMinority ==
    /\ At("resample")
    /\ IF ResampleRaises(df_minority)
       THEN Raise("resample") /\ UNCHANGED df_minority_upsampled
       ELSE /\ df_minority_upsampled' = Resample(df_minority, n_samples, random_state)
            /\ pc' = NextStmt
            /\ UNCHANGED failed
    /\ UNCHANGED <<nb, out, computed, oobVars, file, df, df_majority, df_minority,
                   df_upsampled, X, y, clfs, preds, calls, df_before, rerun>>

\* The concatenation assigned back to df.
ConcatInPlace ==
    /\ At("concat")
    /\ df_upsampled' = Concat(df_majority, df_minority_upsampled)
    /\ df' = df_upsampled'
    /\ pc' = NextStmt
    /\ UNCHANGED <<nb, failed, out, computed, oobVars, file, df_majority, df_minority,
                   df_minority_upsampled, X, y, clfs, preds, calls, df_before, rerun>>

\* df_upsampled = pd.concat([df_majority, df_minority_upsampled])
ConcatFrames ==
    /\ At("concat")
    /\ df_upsampled' = Concat(df_majority, df_minority_upsampled)
    /\ pc' = NextStmt
    /\ UNCHANGED <<nb, failed, out, computed, oobVars, file, df, df_majority, df_minority,
                   df_minority_upsampled, X, y, clfs, preds, calls, df_before, rerun>>

\* df_upsampled.balance.value_counts()
DisplayValueCounts ==
    /\ At("value_counts")
    /\ out' = Append(out, [t |-> "display", what |-> "value_counts",
                           counts |-> ValueCounts(df_upsampled)])
    /\ pc' = NextStmt
    /\ UNCHANGED <<nb, failed, computed, oobVars, sogeVars>>

\* y = <frame>.balance
AssignY ==
    /\ At("y")
    /\ y' = LabelVector(FrameNamed(Stmt.src), Stmt.src)
    /\ pc' = NextStmt
    /\ UNCHANGED <<nb, failed, out, computed, oobVars, file, df, df_majority, df_minority,
                   df_minority_upsampled, df_upsampled, X, clfs, preds, calls,
                   df_before, rerun>>

\* X = <frame>.drop('balance', axis=1)
AssignX ==
    /\ At("X")
    /\ X' = DropBalance(FrameNamed(Stmt.src), Stmt.src)
    /\ pc' = NextStmt
    /\ UNCHANGED <<nb, failed, out, computed, oobVars, file, df, df_majority, df_minority,
                   df_minority_upsampled, df_upsampled, y, clfs, preds, calls,
                   df_before, rerun>>

\* clf_3 = SVC(...) ; clf_4 = RandomForestClassifier()
NewClf ==
    /\ At("new")
    /\ clfs' = Bind(clfs, Stmt.c, NewClassifier(Stmt.kind))
    /\ pc' = NextStmt
    /\ UNCHANGED <<nb, failed, out, computed, oobVars, file, df, df_majority, df_minority,
                   df_minority_upsampled, df_upsampled, X, y, preds, calls,
                   df_before, rerun>>

\* clf_1 = LogisticRegression().fit(X, y) ; clf_3.fit(X, y) ; clf_4.fit(X, y)
Fit ==
    /\ nb = "soge" /\ pc \in StmtLabels /\ Stmt.op \in {"fit", "new_fit"}
    /\ LET obj == IF Stmt.op = "new_fit" THEN NewClassifier(Stmt.kind) ELSE clfs[Stmt.c]
       IN  /\ calls' = Append(calls, Call("fit", Stmt.c, Len(X.rows), Len(y.values), X.of, y.of))
           /\ IF FitRaises(obj, X, y)
              THEN Raise(pc) /\ UNCHANGED clfs
              ELSE /\ clfs' = Bind(clfs, Stmt.c, FitClassifier(obj, X, y))
                   /\ pc' = NextStmt
                   /\ UNCHANGED failed
    /\ UNCHANGED <<nb, out, computed, oobVars, file, df, df_majority, df_minority,
                   df_minority_upsampled, df_upsampled, X, y, preds, df_before, rerun>>

\* pred_y = clf.predict(X)
Predict ==
    /\ At("predict")
    /\ preds' = Bind(preds, Stmt.to, PredictVector(Stmt.c, X))
    /\ calls' = Append(calls, Call("predict", Stmt.to, Len(X.rows), VLen(PredictVector(Stmt.c, X)),
                                   X.of, X.of))
    /\ pc' = NextStmt
    /\ UNCHANGED <<nb, failed, out, computed, oobVars, file, df, df_majority, df_minority,
                   df_minority_upsampled, df_upsampled, X, y, clfs, df_before, rerun>>

\* print( np.unique( pred_y ) )
PrintUnique ==
    /\ At("print_unique")
    /\ out' = Printed(out, [t |-> "print", what |-> "unique", of |-> Stmt.v])
    /\ pc' = NextStmt
    /\ UNCHANGED <<nb, failed, computed, oobVars, sogeVars>>

\* print( accuracy_score(y, pred_y) ): the score is computed and printed by the
\* one statement; accuracy_score raises when the two lengths differ
PrintAccuracy ==
    /\ At("print_accuracy")
    /\ calls' = Append(calls, Call("accuracy_score", Stmt.v, VLen(preds[Stmt.v]), Len(y.values),
                                   preds[Stmt.v].of, y.of))
    /\ IF VLen(preds[Stmt.v]) # Len(y.values)
       THEN Raise(pc) /\ UNCHANGED <<out, computed>>
       ELSE /\ computed' = computed + 1
            /\ out' = Printed(out, [t |-> "print", what |-> "accuracy", of |-> Stmt.v])
            /\ pc' = NextStmt
            /\ UNCHANGED failed
    /\ UNCHANGED <<nb, oobVars, file, df, df_majority, df_minority,
                   df_minority_upsampled, df_upsampled, X, y, clfs, preds, df_before, rerun>>

\* prob_y = clf.predict_proba(X)
PredictProba ==
    /\ At("predict_proba")
    /\ preds' = Bind(preds, Stmt.to, ProbaMatrix(Stmt.c, clfs[Stmt.c], X))
    /\ pc' = NextStmt
    /\ UNCHANGED <<nb, failed, out, computed, oobVars, file, df, df_majority, df_minority,
                   df_minority_upsampled, df_upsampled, X, y, clfs, calls, df_before, rerun>>

\* prob_y = [p[1] for p in prob_y]: IndexError when the rows have one column
Column1 ==
    /\ At("column_1")
    /\ IF preds[Stmt.v].ncols < 2
       THEN Raise(pc) /\ UNCHANGED preds
       ELSE /\ preds' = Bind(preds, Stmt.v, [preds[Stmt.v] EXCEPT !.t = "score", !.ncols = 1])
            /\ pc' = NextStmt
            /\ UNCHANGED failed
    /\ UNCHANGED <<nb, out, computed, oobVars, file, df, df_majority, df_minority,
                   df_minority_upsampled, df_upsampled, X, y, clfs, calls, df_before, rerun>>

\* print( roc_auc_score(y, prob_y) ): raises when the lengths differ or y holds one class
PrintAuc ==
    /\ At("print_auc")
    /\ calls' = Append(calls, Call("roc_auc_score", Stmt.v, VLen(preds[Stmt.v]), Len(y.values),
                                   preds[Stmt.v].of, y.of))
    /\ IF VLen(preds[Stmt.v]) # Len(y.values) \/ Cardinality(Classes(y)) < 2
       THEN Raise(pc) /\ UNCHANGED <<out, computed>>
       ELSE /\ computed' = computed + 1
            /\ out' = Printed(out, [t |-> "print", what |-> "auroc", of |-> Stmt.v])
            /\ pc' = NextStmt
            /\ UNCHANGED failed
    /\ UNCHANGED <<nb, oobVars, file, df, df_majority, df_minority,
                   df_minority_upsampled, df_upsampled, X, y, clfs, preds, df_before, rerun>>

\* The binarisation cell is executed again after the notebook has run.
RerunBinariseCell ==
    /\ nb = "soge" /\ pc = "done" /\ ~rerun
    /\ rerun' = TRUE
    /\ pc' = "binarise"
    /\ UNCHANGED <<nb, failed, out, computed, oobVars, file, df, df_majority, df_minority,
                   df_minority_upsampled, df_upsampled, X, y, clfs, preds, calls, df_before>>

NextSoGe ==
    \/ ReadCsv \/ ReadCsvRaise \/ DfHead \/ BinariseLabels \/ Majority \/ Minority
    \/ ResampleMinority \/ ConcatFrames \/ DisplayValueCounts
    \/ AssignY \/ AssignX \/ NewClf \/ Fit \/ Predict \/ PrintUnique \/ PrintAccuracy
    \/ PredictProba \/ Column1 \/ PrintAuc \/ RerunBinariseCell

-----------------------------------------------------------------------------
InitOOB ==
    /\ nb = "oob"
    /\ pc = "print_doc"
    /\ file = << >>

InitSoGe ==
    /\ nb = "soge"
    /\ pc = "read_csv"
    /\ file \in Files

Init ==
    /\ failed = "none"
    /\ out = << >>
    /\ computed = 0
    /\ data = Undef /\ ensemble_clfs = << >> /\ error_rate = << >>
    /\ ci = 0 /\ i = 0 /\ oob_error = Undef /\ fitting = {} /\ fitLog = << >> /\ pi = 0
    /\ df = Undef /\ df_majority = Undef /\ df_minority = Undef
    /\ df_minority_upsampled = Undef /\ df_upsampled = Undef
    /\ X = Undef /\ y = Undef
    /\ clfs = << >> /\ preds = << >> /\ calls = << >> /\ df_before = Undef
    /\ rerun = FALSE
    /\ (InitOOB \/ InitSoGe)

Next == NextOOB \/ NextSoGe

Spec == Init /\ [][Next]_vars


-----------------------------------------------------------------------------
(* Properties of the OOB sweep *)

SweepSize == max_estimators - min_estimators + 1

IsPrefix(a, b) == Len(a) <= Len(b) /\ SubSeq(b, 1, Len(a)) = a

PlotPhase == nb = "oob" /\ pc \in {"plot_for", "plot", "show", "done"}

\* Something has been drawn: the output holds a plot line or the shown figure.
Plotted == \E k \in DOMAIN out : out[k].t \in {"line", "show"}

\* C1: the OOB error is measured at the addition of each new tree.  The first
\* fit of a classifier builds min_estimators trees; every later fit keeps every
\* tree the ensemble held and adds exactly one; the statement after a fit
\* appends exactly one pair to that classifier's list and to no other, and the
\* pair's first component is the number of trees the ensemble holds.
C1_FitStep ==
    (nb = "oob" /\ pc = "in_fit" /\ pc' = "record") =>
        LET old == ensemble_clfs[ci].clf
            new == ensemble_clfs'[ci].clf
        IN  /\ IsPrefix(old.estimators_, new.estimators_)
            /\ Len(new.estimators_) =
                   IF old.fits = 0 THEN min_estimators ELSE Len(old.estimators_) + 1
            /\ \A k \in DOMAIN ensemble_clfs :
                   k # ci => ensemble_clfs'[k] = ensemble_clfs[k]

C1_RecordStep ==
    (nb = "oob" /\ pc = "record" /\ pc' = "for_i") =>
        /\ error_rate'[ci].pairs =
               Append(error_rate[ci].pairs,
                      << Len(ensemble_clfs[ci].clf.estimators_),
                         OobError(ensemble_clfs[ci].clf) >>)
        /\ error_rate'[ci].pairs[Len(error_rate'[ci].pairs)][2].of.trees =
               Len(ensemble_clfs[ci].clf.estimators_)
        /\ \A k \in DOMAIN error_rate : k # ci => error_rate'[k] = error_rate[k]

C1_OnePairPerFit ==
    (nb = "oob" /\ error_rate # << >>) =>
        \A k \in DOMAIN error_rate :
            Len(error_rate[k].pairs) =
                ensemble_clfs[k].clf.fits - (IF pc = "record" /\ k = ci THEN 1 ELSE 0)

C1_OobMeasuredAtEachNewTree ==
    /\ [][C1_FitStep /\ C1_RecordStep]_vars
    /\ []C1_OnePairPerFit

C1_Witness ==
    /\ nb = "oob" /\ pc = "for_i" /\ ci = 2
    /\ Len(error_rate[2].pairs) = 3
    /\ Len(ensemble_clfs[2].clf.estimators_) = min_estimators + 2

\* C2: when the sweep loop has finished, error_rate has one entry per entry of
\* ensemble_clfs, in the same order, and each entry's list holds exactly one
\* pair for every i from min_estimators to max_estimators, ascending, with no
\* gap and no duplicate (161 pairs).
C2_ErrorRateComplete ==
    PlotPhase =>
        /\ Len(error_rate) = Len(ensemble_clfs)
        /\ \A k \in DOMAIN error_rate :
              /\ error_rate[k].label = ensemble_clfs[k].label
              /\ Len(error_rate[k].pairs) = max_estimators - min_estimators + 1
              /\ \A j \in DOMAIN error_rate[k].pairs :
                     error_rate[k].pairs[j][1] = min_estimators + j - 1

C2_Witness ==
    /\ nb = "oob" /\ pc = "done"
    /\ Len(error_rate) = 3
    /\ error_rate[3].pairs[161][1] = 175

\* C8: the sweep is strictly sequential.  A fit starts only when no fit is in
\* progress, later in the lexicographic order of (classifier position,
\* n_estimators) than the fit before it, and only when every classifier before
\* it has completed all its fits; at most one fit is in progress at any time;
\* plotting starts only after every fit of every classifier has completed.
C8_FitCallStep ==
    (nb = "oob" /\ pc = "fit" /\ pc' = "in_fit") =>
        /\ fitting = {}
        /\ fitLog' = <<ci, i>>
        /\ fitLog # << >> =>
              \/ fitLog[1] < fitLog'[1]
              \/ fitLog[1] = fitLog'[1] /\ fitLog[2] < fitLog'[2]
        /\ \A k \in 1..(ci - 1) : ensemble_clfs[k].clf.fits = SweepSize

C8_OneAtATime == Cardinality(fitting) <= 1

C8_PlotAfterSweep ==
    (PlotPhase \/ (nb = "oob" /\ Plotted)) =>
        /\ fitting = {}
        /\ \A k \in DOMAIN ensemble_clfs : ensemble_clfs[k].clf.fits = SweepSize

C8_StrictlySequential ==
    /\ [][C8_FitCallStep]_vars
    /\ [](C8_OneAtATime /\ C8_PlotAfterSweep)

C8_Witness ==
    /\ nb = "oob" /\ pc = "in_fit" /\ fitting = {3}
    /\ fitLog = <<3, max_estimators>>

-----------------------------------------------------------------------------
(* Properties of the classifier comparison *)

CountLabel(frame, v) ==
    Cardinality({k \in 1..Len(frame.rows) : PyEq(frame.rows[k].balance, v)})

HasB(f) == \E k \in 1..Len(f) : PyEq(f[k].balance, PyStr("B"))

\* C3: for any input with at least one row labelled 'B', df_upsampled holds as
\* many rows with balance = 1 as rows with balance = 0.
C3_UpsampledBalanced ==
    (nb = "soge" /\ HasB(file) /\ df_upsampled # Undef) =>
        CountLabel(df_upsampled, PyInt(1)) = CountLabel(df_upsampled, PyInt(0))

\* C4: at every fit, predict, accuracy_score and roc_auc_score call the label
\* vector has as many entries as the matrix (or prediction vector) it is paired
\* with has rows, both come from the same frame, and X never holds the
\* 'balance' column.
C4_WellFormedCalls ==
    nb = "soge" =>
        /\ \A k \in DOMAIN calls :
              /\ calls[k].n_matrix = calls[k].n_labels
              /\ calls[k].matrix_of = calls[k].labels_of
        /\ X # Undef =>
              /\ "balance" \notin Range(X.columns)
              /\ \A k \in DOMAIN X.rows : "balance" \notin DOMAIN X.rows[k]

C4_Witness ==
    /\ nb = "soge" /\ pc = "done" /\ ~rerun
    /\ Len(calls) = 11
    /\ calls[11].fn = "roc_auc_score"
    /\ calls[1].n_labels > n_samples

\* C9: the upsampling statements leave df as it was; clf_3 and clf_4 are fit on
\* X, y taken from df and not from df_upsampled, and are evaluated on them too:
\* their predictions and probabilities are computed on the rows of df, and
\* their accuracy and AUROC compare those with the labels of df.  Only clf_1
\* is fit and evaluated on the resampled frame.
TrainedOn(c, frame, name) ==
    /\ clfs[c].trained_on.X_of = name
    /\ clfs[c].trained_on.y_of = name
    /\ clfs[c].trained_on.index = frame.index
    /\ clfs[c].trained_on.rows = DropBalance(frame, name).rows
    /\ clfs[c].trained_on.y = BalanceOf(frame)

\* The vector preds[v] was computed by predict or predict_proba on the rows of frame.
PredictedOn(v, frame, name) ==
    /\ preds[v].of = name
    /\ preds[v].index = frame.index

\* Call k passed a matrix (or prediction vector) and labels that both come from frame.
CalledOn(k, frame, name) ==
    /\ calls[k].matrix_of = name
    /\ calls[k].labels_of = name
    /\ calls[k].n_matrix = Len(frame.rows)
    /\ calls[k].n_labels = Len(frame.rows)

C9_OnlyClf1OnResampled ==
    (nb = "soge" /\ ~rerun) =>
        /\ df_before # Undef => df = df_before
        /\ \A c \in DOMAIN clfs :
              clfs[c].fits > 0 =>
                  IF c = "clf_1"
                  THEN TrainedOn(c, df_upsampled, "df_upsampled")
                  ELSE /\ TrainedOn(c, df, "df")
                       /\ clfs[c].trained_on.index # df_upsampled.index
        /\ \A v \in DOMAIN preds :
              IF preds[v].by = "clf_1"
              THEN PredictedOn(v, df_upsampled, "df_upsampled")
              ELSE /\ PredictedOn(v, df, "df")
                   /\ preds[v].index # df_upsampled.index
        /\ \A k \in DOMAIN calls :
              IF calls[k].on \in {"clf_1", "pred_y_1"}
              THEN CalledOn(k, df_upsampled, "df_upsampled")
              ELSE CalledOn(k, df, "df")

C9_Witness ==
    /\ nb = "soge" /\ pc = "done" /\ ~rerun
    /\ DOMAIN clfs = {"clf_1", "clf_3", "clf_4"}
    /\ \A c \in DOMAIN clfs : clfs[c].fits = 1
    /\ DOMAIN preds = {"pred_y_1", "pred_y_3", "pred_y_4", "prob_y_3", "prob_y_4"}
    /\ {calls[k].on : k \in DOMAIN calls} =
           {"clf_1", "clf_3", "clf_4", "pred_y_1", "pred_y_3", "pred_y_4",
            "prob_y_3", "prob_y_4"}
    /\ \E k \in DOMAIN calls : calls[k].fn = "roc_auc_score" /\ calls[k].on = "prob_y_4"
    /\ df_upsampled # df

\* C10: the binarisation is not idempotent.  Executed a second time, on the
\* frame it has already binarised, it changes the frame: every label becomes
\* 0, so the minority frame is empty and the majority frame holds every row.
C10_SecondBinarisationZeroes ==
    (nb = "soge" /\ rerun /\ pc # "binarise") =>
        /\ \A k \in DOMAIN df.rows : df.rows[k].balance = PyInt(0)
        /\ pc = "majority" => df # df_before
        /\ pc \in {"minority", "resample", "terminated"} =>
              df_majority.rows = df.rows
        /\ pc \in {"resample", "terminated"} =>
              df_minority.rows = << >>

C10_Witness ==
    /\ nb = "soge" /\ rerun /\ pc = "terminated" /\ failed = "resample"
    /\ HasB(file)
    /\ Len(df_majority.rows) = Len(file)
    /\ df_minority.rows = << >>

-----------------------------------------------------------------------------
(* Properties of both notebooks *)

MetricKinds == {"accuracy", "auroc"}

\* The number of metric values that an item of the output renders.
Renders(item) ==
    IF item.t = "line" THEN Len(item.ys)
    ELSE IF item.t = "print" /\ item.what \in MetricKinds THEN 1
    ELSE 0

RECURSIVE RenderedIn(_)
RenderedIn(o) == IF o = << >> THEN 0 ELSE Renders(o[1]) + RenderedIn(Tail(o))

RECURSIVE PairsIn(_)
PairsIn(er) == IF er = << >> THEN 0 ELSE Len(er[1].pairs) + PairsIn(Tail(er))

\* The number of metric values that the program's variables hold.
HeldMetrics ==
    IF nb = "oob" THEN PairsIn(error_rate)
    ELSE Cardinality({v \in DOMAIN preds : preds[v].t \in MetricKinds})

\* C5 as stated: every computed metric is rendered before the next one is
\* computed, and no metric is held once it has been rendered.
C5_RenderedImmediatelyNotStored ==
    /\ computed - RenderedIn(out) <= 1
    /\ HeldMetrics <= computed - RenderedIn(out)

\* C5 as amended: accuracy and AUROC are printed by the statement that computes
\* them and are held by no variable; the OOB errors are all kept in error_rate,
\* none is plotted before the whole sweep has been computed, and error_rate
\* still holds every one of them after plt.show().
C5_PrintedOrAccumulated ==
    /\ nb = "soge" => computed = RenderedIn(out) /\ HeldMetrics = 0
    /\ nb = "oob" =>
          /\ HeldMetrics = computed
          /\ RenderedIn(out) > 0 => computed = Len(Labels) * SweepSize
          /\ pc = "done" => /\ RenderedIn(out) = Len(Labels) * SweepSize
                          /\ HeldMetrics = Len(Labels) * SweepSize

C5_Witness ==
    /\ nb = "oob" /\ pc = "done"
    /\ HeldMetrics = 483
    /\ RenderedIn(out) = 483

\* C6 as stated: fit is invoked on a classifier object exactly once.
C6_FitOnce ==
    /\ \A k \in DOMAIN ensemble_clfs : ensemble_clfs[k].clf.fits <= 1
    /\ \A c \in DOMAIN clfs : clfs[c].fits <= 1

\* C6 as amended: clf_1, clf_3 and clf_4 are each fit exactly once and never
\* refit; each classifier object of the OOB sweep is fit once for every value
\* of n_estimators, 161 times by the end of the sweep.
C6_FitOncePerSetting ==
    /\ nb = "soge" =>
          /\ \A c \in DOMAIN clfs : clfs[c].fits <= 1
          /\ pc = "done" =>
                /\ DOMAIN clfs = {"clf_1", "clf_3", "clf_4"}
                /\ \A c \in DOMAIN clfs : clfs[c].fits = 1
    /\ nb = "oob" =>
          /\ \A k \in DOMAIN ensemble_clfs : ensemble_clfs[k].clf.fits <= SweepSize
          /\ PlotPhase => \A k \in DOMAIN ensemble_clfs :
                              ensemble_clfs[k].clf.fits = SweepSize

C6_Witness ==
    /\ nb = "oob" /\ pc = "plot_for" /\ pi = 0
    /\ \A k \in 1..3 : ensemble_clfs[k].clf.fits = 161

\* C7: a failure terminates the run.  The step that fails records and renders
\* nothing and fits nothing, and after it no step changes anything: nothing is
\* retried and no later statement executes.
C7_FailingStep ==
    (failed = "none" /\ failed' # "none") =>
        /\ pc' = "terminated"
        /\ UNCHANGED <<out, computed, error_rate, ensemble_clfs, clfs, preds, df,
                       df_upsampled>>

C7_AfterFailure == failed # "none" => UNCHANGED vars

C7_FailureTerminates == [][C7_FailingStep /\ C7_AfterFailure]_vars

C7_Witness ==
    /\ nb = "oob" /\ failed = "fit" /\ pc = "terminated"
    /\ ci = 2 /\ i = 20
    /\ Len(error_rate[2].pairs) = 5
    /\ ~Plotted

====
